---- MODULE Spec2Model ----
(***************************************************************************)
(* InsuredBridgePriceFeed: the relay validator of the insured bridge.      *)
(* getHistoricalPrice adjudicates a relay price request against the L1     *)
(* client's pending relays and the deposit list cached by update().        *)
(*                                                                         *)
(* BridgePool: the L1 contract whose relays the validator adjudicates.     *)
(* Relayers relay, speed up and settle L2 deposits; the optimistic oracle  *)
(* reports disputes back through priceDisputed.                            *)
(***************************************************************************)
EXTENDS Integers, Sequences, FiniteSets, TLC

VARIABLES
    l1Relays,    \* l1Client.getPendingRelayedDeposits()
    l2Deposits,  \* l2Client.getAllDeposits()
    deposits,    \* this.deposits
    upd,         \* the update() call and its two client refreshes
    calls,       \* the getHistoricalPrice calls
    hist,        \* history of the current update(), for stating the properties
    \* BridgePool storage
    numberOfRelays,
    liquidReserves,
    utilizedReserves,
    pendingReserves,
    undistributedLpFees,
    lastLpFeeUpdate,
    poolRelays,                 \* mapping(bytes32 => bytes32) relays
    relayRequestAncillaryData,
    instantRelays,
    totalSupply,                \* LP tokens minted by the pool (ExpandedERC20)
    \* the pool's environment
    l1TokenBalance,             \* l1Token.balanceOf(address(this))
    requests,                   \* the optimistic oracle's price requests of the pool
    currentTime,                \* getCurrentTime()
    created,                    \* every relay a relayDeposit has created, in order
    \* OracleChildTunnel
    prices,                     \* mapping(bytes32 => Price) prices
    tunnelMessages,             \* the messages sent to the root chain
    tunnelCall,                 \* the last hasPrice or getPrice call and what it gave
    \* Polygon_ChildMessenger
    oracleSpoke,
    oracleHub,
    messengerMessages,          \* the messages sent to the root chain, in order
    messengerDelivered          \* the calls of processMessageFromParent made on targets

feedVars == <<l1Relays, l2Deposits, deposits, upd, calls, hist>>

poolVars == <<numberOfRelays, liquidReserves, utilizedReserves, pendingReserves,
              undistributedLpFees, lastLpFeeUpdate, poolRelays, relayRequestAncillaryData,
              instantRelays, totalSupply, l1TokenBalance, requests, currentTime, created>>

tunnelVars == <<prices, tunnelMessages, tunnelCall>>

messengerVars == <<oracleSpoke, oracleHub, messengerMessages, messengerDelivered>>

polygonVars == <<tunnelVars, messengerVars>>

vars == <<feedVars, poolVars, polygonVars>>

\* A mapping with no key written: every key reads as zero.
EmptyMapping == [k \in {} |-> << >>]

\* No transaction has been sent yet.

\* The pool after its constructor, at time 0: no liquidity, no relay, no LP token.
\* No hasPrice or getPrice call made yet.
NoCall == [fn |-> "none"]

TunnelConstructed ==
    /\ prices = EmptyMapping
    /\ tunnelMessages = {}
    /\ tunnelCall = NoCall

MessengerConstructed ==
    /\ oracleSpoke = "0x0"
    /\ oracleHub = "0x0"
    /\ messengerMessages = << >>
    /\ messengerDelivered = {}

PoolConstructed ==
    /\ numberOfRelays = 0
    /\ liquidReserves = 0
    /\ utilizedReserves = 0
    /\ pendingReserves = 0
    /\ undistributedLpFees = 0
    /\ lastLpFeeUpdate = 0
    /\ poolRelays = EmptyMapping
    /\ relayRequestAncillaryData = EmptyMapping
    /\ instantRelays = EmptyMapping
    /\ totalSupply = 0
    /\ l1TokenBalance = 0
    /\ requests = EmptyMapping
    /\ currentTime = 0
    /\ created = << >>

(***************************************************************************)
(* Bounds of the model.                                                    *)
(***************************************************************************)
\* Longest pending-relay collection the L1 client reports.
MaxRelays == 2
\* Longest deposit collection the L2 client reports.
MaxDeposits == 2

\* The getHistoricalPrice calls that can be in flight at once.
CallIds == {1}

\* Values of the unused `time` argument.
Times == {0, 1}

(***************************************************************************)
(* Decimal strings and big numbers.  A decimal string is a sequence of     *)
(* digits, most significant first.  A BN is a sequence of limbs in base    *)
(* 10^6, least significant first, without leading zero limbs (zero is      *)
(* <<0>>), so that 10^18 is <<0, 0, 0, 1>>.                                 *)
(***************************************************************************)
LimbDigits == 6
EtherDecimals == 18

Zeros(n) == [i \in 1..n |-> 0]

RECURSIVE Digits(_)
\* Number.prototype.toString for a natural number.
Digits(n) == IF n < 10 THEN <<n>> ELSE Digits(n \div 10) \o <<n % 10>>

\* The limb n as exactly LimbDigits digits.
PadLimb(n) == Zeros(LimbDigits - Len(Digits(n))) \o Digits(n)

RECURSIVE StripZeros(_)
StripZeros(s) == IF Len(s) > 1 /\ s[1] = 0 THEN StripZeros(Tail(s)) ELSE s

RECURSIVE DigitsValue(_)
\* The number a short digit string denotes.
DigitsValue(s) == IF s = << >> THEN 0 ELSE 10 * DigitsValue(SubSeq(s, 1, Len(s) - 1)) + s[Len(s)]

RECURSIVE LimbsOf(_)
LimbsOf(s) ==
    IF Len(s) <= LimbDigits THEN <<DigitsValue(s)>>
    ELSE <<DigitsValue(SubSeq(s, Len(s) - LimbDigits + 1, Len(s)))>>
         \o LimbsOf(SubSeq(s, 1, Len(s) - LimbDigits))

\* Web3.utils.toBN of a decimal string.
toBN(s) == LimbsOf(StripZeros(s))

RECURSIVE LowLimbsToString(_, _)
LowLimbsToString(bn, i) == IF i < 1 THEN << >> ELSE PadLimb(bn[i]) \o LowLimbsToString(bn, i - 1)

\* BN.prototype.toString(10).
BNToString(bn) == Digits(bn[Len(bn)]) \o LowLimbsToString(bn, Len(bn) - 1)

\* Web3.utils.toWei of an integer decimal string, unit ether.
toWei(s) == IF StripZeros(s) = <<0>> THEN <<0>> ELSE StripZeros(s) \o Zeros(EtherDecimals)

\* enum isRelayValid
isRelayValid_No == 0
isRelayValid_Yes == 1

\* this.decimals = 18, assigned in the constructor and nowhere else.
decimals == 18

getPriceFeedDecimals_Gwei == decimals - 9

\* getPriceFeedDecimals(): return this.decimals.
getPriceFeedDecimals == decimals

toBNWei_Unscaled(number) == toBN(Digits(number))

\* const toBNWei = (number) => toBN(toWei(number.toString()).toString())
\* toBNWei of the two numbers the feed passes to it (lines 13-14), computed once.
WeiTable == [number \in {isRelayValid_No, isRelayValid_Yes} |-> toBN(toWei(Digits(number)))]

toBNWei(number) == WeiTable[number]

(***************************************************************************)
(* The records of the two snapshots.                                       *)
(***************************************************************************)
\* Relay hashes as they appear in ancillary data (no 0x prefix).
RelayHashes == {"aa", "bb"}
DepositHashes == {"0xd1", "0xd2"}

DecimalString(first, zeros) == <<first>> \o Zeros(zeros)
\* 0.1 and 0.2 as 18-decimal fixed point.
FeeValues == {toBN(DecimalString(1, 17)), toBN(DecimalString(2, 17))}

\* The relay hash commits to the deposit and to the claimed fee (BridgePool hashes
\* the deposit data and the relay data into it): relay aa claims 0.1 for deposit
\* d1, relay bb claims 0.2 for deposit d2.
RelayOf(h, settleable) ==
    [relayAncillaryDataHash |-> "0x" \o h,
     depositHash |-> IF h = "aa" THEN "0xd1" ELSE "0xd2",
     settleable |-> settleable,
     realizedLpFeePct |-> IF h = "aa" THEN toBN(DecimalString(1, 17)) ELSE toBN(DecimalString(2, 17))]

\* A pending relay of the L1 client (interface Relay).
Relays == {RelayOf(h, s) : h \in RelayHashes, s \in BOOLEAN}

\* A deposit of the L2 client (interface Deposit).
Deposits == [depositHash : DepositHashes]

SeqsUpTo(S, n) == UNION {[1..k -> S] : k \in 0..n}

\* The relay hash is the key of a relay: BridgePool keeps one relay per deposit.
UniqueRelays(s) ==
    \A i, j \in DOMAIN s : s[i].relayAncillaryDataHash = s[j].relayAncillaryDataHash => i = j
UniqueDeposits(s) ==
    \A i, j \in DOMAIN s : s[i].depositHash = s[j].depositHash => i = j

\* What l1Client.getPendingRelayedDeposits() can report after a refresh.
L1Snapshots == {s \in SeqsUpTo(Relays, MaxRelays) : UniqueRelays(s)}
\* What l2Client.getAllDeposits() can report after a refresh.
L2Snapshots == {s \in SeqsUpTo(Deposits, MaxDeposits) : UniqueDeposits(s)}

(***************************************************************************)
(* Ancillary data.  The bytes are a sequence of tokens, "key:value" pairs  *)
(* separated by commas.                                                    *)
(***************************************************************************)
AncillaryInputs ==
    {<<"relayHash", ":", h>> : h \in RelayHashes \cup {"cc"}}
    \cup {<<"depositHash", ":", "d1">>,
          <<"relayHash", ":">>,
          <<"relayHash", "aa">>}

Separators == {":", ","}

WellFormed(anc) ==
    \/ Len(anc) = 0
    \/ /\ Len(anc) % 4 = 3
       /\ \A i \in DOMAIN anc :
            /\ i % 4 = 2 => anc[i] = ":"
            /\ i % 4 = 0 => anc[i] = ","
            /\ i % 4 \in {1, 3} => anc[i] \notin Separators

KeysOf(anc) == {anc[i] : i \in {j \in DOMAIN anc : j % 4 = 1}}

\* parseAncillaryData of @uma/common: the key-value mapping, or a failure.
parseAncillaryData(anc) ==
    IF WellFormed(anc)
    THEN [ok |-> TRUE,
          value |-> [k \in KeysOf(anc) |->
                       LET i == CHOOSE j \in DOMAIN anc :
                                  /\ j % 4 = 1 /\ anc[j] = k
                                  /\ \A l \in DOMAIN anc : (l % 4 = 1 /\ anc[l] = k) => l <= j
                       IN anc[i + 2]]]
    ELSE [ok |-> FALSE]

\* "0x" + parsedAncillaryData.relayHash; a missing property reads as undefined.
RelayAncillaryDataHashOf(parsed) ==
    "0x" \o (IF "relayHash" \in DOMAIN parsed THEN parsed["relayHash"] ELSE "undefined")

(***************************************************************************)
(* Array.prototype.find: the index of the first match, 0 for undefined.    *)
(***************************************************************************)
FirstIndex(S) == IF S = {} THEN 0 ELSE CHOOSE i \in S : \A j \in S : i <= j

FindRelay_FirstElement(relays, hash) == IF relays = << >> THEN 0 ELSE 1

FindRelay(relays, hash) ==
    FirstIndex({i \in DOMAIN relays : relays[i].relayAncillaryDataHash = hash})

FindDeposit_FirstElement(deps, depositHash) == IF deps = << >> THEN 0 ELSE 1

FindDeposit(deps, depositHash) ==
    FirstIndex({i \in DOMAIN deps : deps[i].depositHash = depositHash})

(***************************************************************************)
(* getHistoricalPrice.  A call is idle, suspended in the fee cross-check   *)
(* (awaitFee) or settled (done); `site` is the line of the return or throw *)
(* that settled it and `log` the debug events it emitted.                  *)
(***************************************************************************)
Idle == [pc |-> "idle"]

\* `fee` holds expectedRealizedFeePct once the fee computation has returned it.
Returned(anc, value, site, log, fee) ==
    [pc |-> "done", ancillaryData |-> anc, outcome |-> "returned",
     value |-> <<value>>, site |-> site, log |-> log, fee |-> fee]

Thrown(anc, error, site) ==
    [pc |-> "done", ancillaryData |-> anc, outcome |-> "threw",
     value |-> << >>, site |-> site, log |-> << >>, fee |-> << >>, error |-> error]

Suspended(anc, relay, deposit) ==
    [pc |-> "awaitFee", ancillaryData |-> anc, relay |-> relay, deposit |-> deposit]

\* this.logger.debug({ at, message, relay, ... })
LogEvent(message, relay, more) ==
    [at |-> "InsuredBridgePriceFeed", message |-> message, relay |-> relay, more |-> more]

\* The verdict of each return statement.
NoRelayVerdict == isRelayValid_No
SettleableVerdict_No == isRelayValid_No
SettleableVerdict == isRelayValid_Yes
NoDepositVerdict == isRelayValid_No
FeeMismatchVerdict == isRelayValid_No
PassedVerdict == isRelayValid_Yes

OnDecodeFailure_ReturnsNo(anc) == Returned(anc, toBNWei(isRelayValid_No), 71, << >>, << >>)

\* parseAncillaryData throws and nothing catches it.
OnDecodeFailure(anc) == Thrown(anc, "DecodeError", 60)

\* expectedRealizedFeePct !== relay.realizedLpFeePct: two BN objects, never identical.
FeeDiffers_ObjectIdentity(expected, claimed) == TRUE

\* expectedRealizedFeePct.toString() !== relay.realizedLpFeePct.toString()
FeeDiffers(expected, claimed) == BNToString(expected) # BNToString(claimed)

\* The deposit lookup and the fee computation come before the settleable check.
Adjudicate_FeeFirst(anc, relays, deps) ==
    LET parsed == parseAncillaryData(anc) IN
    IF ~parsed.ok THEN OnDecodeFailure(anc)
    ELSE
      LET ri == FindRelay(relays, RelayAncillaryDataHashOf(parsed.value)) IN
      IF ri = 0
      THEN Returned(anc, toBNWei(NoRelayVerdict), 71,
                    <<LogEvent("No relay event found", << >>, << >>)>>, << >>)
      ELSE
        LET relay == relays[ri]
            di == FindDeposit(deps, relay.depositHash)
        IN
        IF di # 0 THEN Suspended(anc, relay, deps[di])
        ELSE IF relay.settleable
        THEN Returned(anc, toBNWei(SettleableVerdict), 81,
                      <<LogEvent("Relay liveness has expired", <<relay>>, << >>)>>, << >>)
        ELSE Returned(anc, toBNWei(NoDepositVerdict), 96,
                      <<LogEvent("No deposit event found", <<relay>>, << >>)>>, << >>)

\* Lines 60-97: everything up to the await, run against the snapshots given.
Adjudicate(anc, relays, deps) ==
    LET parsed == parseAncillaryData(anc) IN
    IF ~parsed.ok THEN OnDecodeFailure(anc)
    ELSE
      LET relayAncillaryDataHash == RelayAncillaryDataHashOf(parsed.value)
          ri == FindRelay(relays, relayAncillaryDataHash)
      IN
      IF ri = 0
      THEN Returned(anc, toBNWei(NoRelayVerdict), 71,
                    <<LogEvent("No relay event found", << >>, << >>)>>, << >>)
      ELSE
        LET relay == relays[ri] IN
        IF relay.settleable
        THEN Returned(anc, toBNWei(SettleableVerdict), 81,
                      <<LogEvent("Relay liveness has expired", <<relay>>, << >>)>>, << >>)
        ELSE
          LET di == FindDeposit(deps, relay.depositHash) IN
          IF di = 0
          THEN Returned(anc, toBNWei(NoDepositVerdict), 96,
                        <<LogEvent("No deposit event found", <<relay>>, << >>)>>, << >>)
          ELSE Suspended(anc, relay, deps[di])

\* Lines 100-112: the continuation once the fee computation has returned.
AfterFee(call, expectedRealizedFeePct) ==
    IF FeeDiffers(expectedRealizedFeePct, call.relay.realizedLpFeePct)
    THEN Returned(call.ancillaryData, toBNWei(FeeMismatchVerdict), 108,
                  <<LogEvent("Matched deposit realized fee % is incorrect", <<call.relay>>,
                             BNToString(expectedRealizedFeePct))>>,
                  <<expectedRealizedFeePct>>)
    ELSE Returned(call.ancillaryData, toBNWei(PassedVerdict), 112, << >>,
                  <<expectedRealizedFeePct>>)

\* The call read the pending relays and went on to read the cached deposits.
ReadBothSnapshots(call) == call.pc = "awaitFee" \/ (call.pc = "done" /\ call.site = 96)

\* The pending relays are first filtered by the `time` argument (none is older
\* than time 0).
GetHistoricalPrice_FiltersByTime(c, time, anc) ==
    LET after == Adjudicate(anc, IF time = 0 THEN << >> ELSE l1Relays, deposits) IN
    /\ calls[c].pc # "awaitFee"
    /\ calls' = [calls EXCEPT ![c] = after]
    /\ hist' = [hist EXCEPT !.midRead =
                   @ \/ (upd.pc = "await" /\ hist.l1Changed /\ ReadBothSnapshots(after))]
    /\ UNCHANGED <<l1Relays, l2Deposits, deposits, upd, poolVars, polygonVars>>

\* The matched deposit is taken out of this.deposits (splice) instead of looked up.
GetHistoricalPrice_ConsumesDeposit(c, time, anc) ==
    LET after == Adjudicate(anc, l1Relays, deposits) IN
    /\ calls[c].pc # "awaitFee"
    /\ calls' = [calls EXCEPT ![c] = after]
    /\ hist' = [hist EXCEPT !.midRead =
                   @ \/ (upd.pc = "await" /\ hist.l1Changed /\ ReadBothSnapshots(after))]
    /\ deposits' = IF after.pc = "awaitFee"
                   THEN SelectSeq(deposits, LAMBDA d : d # after.deposit)
                   ELSE deposits
    /\ UNCHANGED <<l1Relays, l2Deposits, upd, poolVars, polygonVars>>

GetHistoricalPrice(c, time, anc) ==
    /\ calls[c].pc # "awaitFee"
    /\ calls' = [calls EXCEPT ![c] = Adjudicate(anc, l1Relays, deposits)]
    /\ hist' = [hist EXCEPT !.midRead =
                   @ \/ (upd.pc = "await" /\ hist.l1Changed /\ ReadBothSnapshots(calls'[c]))]
    /\ UNCHANGED <<l1Relays, l2Deposits, deposits, upd, poolVars, polygonVars>>

\* The matched relay is kept in a field of the instance, which a later call
\* overwrites: the continuation compares against the relay of another suspended call.
FeeResolve_SharedRelay(c, expectedRealizedFeePct) ==
    LET others == {o \in DOMAIN calls : o # c /\ calls[o].pc = "awaitFee"}
        relay == IF others = {} THEN calls[c].relay
                 ELSE calls[CHOOSE o \in others : TRUE].relay
    IN
    /\ calls[c].pc = "awaitFee"
    /\ calls' = [calls EXCEPT ![c] =
                    AfterFee([calls[c] EXCEPT !.relay = relay], expectedRealizedFeePct)]
    /\ UNCHANGED <<l1Relays, l2Deposits, deposits, upd, hist, poolVars, polygonVars>>

\* After the await the call looks the relay and the deposit up again in the
\* snapshots as they are by then.
FeeResolve_RereadsSnapshots(c, expectedRealizedFeePct) ==
    LET again == Adjudicate(calls[c].ancillaryData, l1Relays, deposits) IN
    /\ calls[c].pc = "awaitFee"
    /\ calls' = [calls EXCEPT ![c] =
                    IF again.pc = "awaitFee" THEN AfterFee(again, expectedRealizedFeePct)
                    ELSE again]
    /\ UNCHANGED <<l1Relays, l2Deposits, deposits, upd, hist, poolVars, polygonVars>>

\* l1Client.calculateRealizedLpFeePctForDeposit(deposit) returns.
FeeResolve(c, expectedRealizedFeePct) ==
    /\ calls[c].pc = "awaitFee"
    /\ calls' = [calls EXCEPT ![c] = AfterFee(calls[c], expectedRealizedFeePct)]
    /\ UNCHANGED <<l1Relays, l2Deposits, deposits, upd, hist, poolVars, polygonVars>>

\* A try/catch around the await turns the failure into isRelayValid.No.
FeeReject_ReturnsNo(c) ==
    /\ calls[c].pc = "awaitFee"
    /\ calls' = [calls EXCEPT ![c] =
                    Returned(calls[c].ancillaryData, toBNWei(isRelayValid_No), 108, << >>, << >>)]
    /\ UNCHANGED <<l1Relays, l2Deposits, deposits, upd, hist, poolVars, polygonVars>>

\* l1Client.calculateRealizedLpFeePctForDeposit(deposit) fails.
FeeReject(c) ==
    /\ calls[c].pc = "awaitFee"
    /\ calls' = [calls EXCEPT ![c] = Thrown(calls[c].ancillaryData, "FeeError", 100)]
    /\ UNCHANGED <<l1Relays, l2Deposits, deposits, upd, hist, poolVars, polygonVars>>

(***************************************************************************)
(* update().  Promise.all starts both client refreshes; it rejects as soon *)
(* as one of them rejects and resolves once both have resolved.            *)
(***************************************************************************)
Running(u) == u.pc = "await" \/ u.l1 = "running" \/ u.l2 = "running"

\* The deposit list is assigned before the await instead of after it.
Update_SwapsFirst ==
    /\ ~Running(upd)
    /\ upd' = [pc |-> "await", l1 |-> "running", l2 |-> "running"]
    /\ deposits' = l2Deposits
    /\ hist' = [hist EXCEPT !.l1Changed = FALSE, !.depChanged = FALSE, !.midRead = FALSE]
    /\ UNCHANGED <<l1Relays, l2Deposits, calls, poolVars, polygonVars>>

\* Lines 136-138: update() starts both client updates and awaits Promise.all.
Update ==
    /\ ~Running(upd)
    /\ upd' = [pc |-> "await", l1 |-> "running", l2 |-> "running"]
    /\ hist' = [hist EXCEPT !.l1Changed = FALSE, !.depChanged = FALSE, !.midRead = FALSE]
    /\ UNCHANGED <<l1Relays, l2Deposits, deposits, calls, poolVars, polygonVars>>

\* l1Client.update() resolves: the client holds a fresh relay collection.
L1UpdateResolve(relays) ==
    /\ upd.l1 = "running"
    /\ l1Relays' = relays
    /\ upd' = [upd EXCEPT !.l1 = "ok"]
    /\ hist' = [hist EXCEPT !.l1Changed = (relays # l1Relays)]
    /\ UNCHANGED <<l2Deposits, deposits, calls, poolVars, polygonVars>>

L1UpdateReject ==
    /\ upd.l1 = "running"
    /\ upd' = [upd EXCEPT !.l1 = "failed"]
    /\ UNCHANGED <<l1Relays, l2Deposits, deposits, calls, hist, poolVars, polygonVars>>

\* l2Client.update() resolves: the client holds a fresh deposit collection.
L2UpdateResolve(deps) ==
    /\ upd.l2 = "running"
    /\ l2Deposits' = deps
    /\ upd' = [upd EXCEPT !.l2 = "ok"]
    /\ UNCHANGED <<l1Relays, deposits, calls, hist, poolVars, polygonVars>>

L2UpdateReject ==
    /\ upd.l2 = "running"
    /\ upd' = [upd EXCEPT !.l2 = "failed"]
    /\ UNCHANGED <<l1Relays, l2Deposits, deposits, calls, hist, poolVars, polygonVars>>

AllResolved_EitherOne(u) == u.l1 = "ok" \/ u.l2 = "ok"

\* Promise.all([...]) has resolved.
AllResolved(u) == u.l1 = "ok" /\ u.l2 = "ok"

\* Promise.all([...]) has rejected.
AnyRejected(u) == u.l1 = "failed" \/ u.l2 = "failed"

\* The reported deposits are pushed onto the old list instead of replacing it.
UpdateResolve_Appends ==
    /\ upd.pc = "await"
    /\ AllResolved(upd)
    /\ deposits' = deposits \o l2Deposits
    /\ upd' = [upd EXCEPT !.pc = "resolved"]
    /\ hist' = [hist EXCEPT !.depChanged = (l2Deposits # deposits), !.completed = TRUE]
    /\ UNCHANGED <<l1Relays, l2Deposits, calls, poolVars, polygonVars>>

\* Line 141, after the await: this.deposits = this.l2Client.getAllDeposits().
UpdateResolve ==
    /\ upd.pc = "await"
    /\ AllResolved(upd)
    /\ deposits' = l2Deposits
    /\ upd' = [upd EXCEPT !.pc = "resolved"]
    /\ hist' = [hist EXCEPT !.depChanged = (l2Deposits # deposits), !.completed = TRUE]
    /\ UNCHANGED <<l1Relays, l2Deposits, calls, poolVars, polygonVars>>

\* The await throws: update() rejects without reaching line 141.
UpdateReject ==
    /\ upd.pc = "await"
    /\ AnyRejected(upd)
    /\ upd' = [upd EXCEPT !.pc = "rejected"]
    /\ hist' = [hist EXCEPT !.completed = TRUE]
    /\ UNCHANGED <<l1Relays, l2Deposits, deposits, calls, poolVars, polygonVars>>

(***************************************************************************)
(* The specification.                                                      *)
(***************************************************************************)
\* After construction: private deposits: Deposit[] = [], clients not yet refreshed.
Init ==
    /\ l1Relays = << >>
    /\ l2Deposits = << >>
    /\ deposits = << >>
    /\ upd = [pc |-> "idle", l1 |-> "none", l2 |-> "none"]
    /\ calls = [c \in CallIds |-> Idle]
    /\ hist = [l1Changed |-> FALSE, depChanged |-> FALSE, midRead |-> FALSE, completed |-> FALSE]
    /\ PoolConstructed
    /\ TunnelConstructed
    /\ MessengerConstructed

Next ==
    \/ \E c \in CallIds, t \in Times, anc \in AncillaryInputs : GetHistoricalPrice(c, t, anc)
    \/ \E c \in CallIds, fee \in FeeValues : FeeResolve(c, fee)
    \/ \E c \in CallIds : FeeReject(c)
    \/ Update
    \/ \E relays \in L1Snapshots : L1UpdateResolve(relays)
    \/ L1UpdateReject
    \/ \E deps \in L2Snapshots : L2UpdateResolve(deps)
    \/ L2UpdateReject
    \/ UpdateResolve
    \/ UpdateReject

Spec == Init /\ [][Next]_vars

(***************************************************************************)
(* Concurrent adjudication with no update() running: two calls interleave  *)
(* at their suspension points against the snapshots a first successful     *)
(* update() has left.                                                      *)
(***************************************************************************)
ConcurrentCallIds == {1, 2}

InitCalls ==
    \E relays \in L1Snapshots, deps \in L2Snapshots :
        /\ l1Relays = relays
        /\ l2Deposits = deps
        /\ deposits = deps
        /\ upd = [pc |-> "resolved", l1 |-> "ok", l2 |-> "ok"]
        /\ calls = [c \in ConcurrentCallIds |-> Idle]
        /\ hist = [l1Changed |-> (relays # << >>), depChanged |-> (deps # << >>),
                   midRead |-> FALSE, completed |-> TRUE]
        /\ PoolConstructed
        /\ TunnelConstructed
        /\ MessengerConstructed
    /\ TunnelConstructed
    /\ MessengerConstructed

NextCalls ==
    \/ \E c \in ConcurrentCallIds, t \in Times, anc \in AncillaryInputs :
          GetHistoricalPrice(c, t, anc)
    \/ \E c \in ConcurrentCallIds, fee \in FeeValues : FeeResolve(c, fee)
    \/ \E c \in ConcurrentCallIds : FeeReject(c)

SpecCalls == InitCalls /\ [][NextCalls]_vars

(***************************************************************************)
(* Properties.                                                             *)
(***************************************************************************)
ValidDigits == DecimalString(1, 18)
InvalidDigits == <<0>>

ReturnedVerdict(call, digits) ==
    /\ call.pc = "done"
    /\ call.outcome = "returned"
    /\ BNToString(call.value[1]) = digits

\* This step is getHistoricalPrice(time, calls'[c].ancillaryData) of call c, run
\* against l1Relays and deposits.
Invoked(c) == calls[c].pc # "awaitFee" /\ calls'[c] # calls[c]

Decodable(anc) == parseAncillaryData(anc).ok

\* The pending relays whose relayAncillaryDataHash is "0x" + relayHash.
MatchingRelays(anc) ==
    {l1Relays[i] : i \in {j \in DOMAIN l1Relays :
        l1Relays[j].relayAncillaryDataHash
            = RelayAncillaryDataHashOf(parseAncillaryData(anc).value)}}

\* The cached deposits with the relay's depositHash.
MatchingDeposits(r) ==
    {deposits[i] : i \in {j \in DOMAIN deposits : deposits[j].depositHash = r.depositHash}}

\* C1: a call that matched a non-settleable relay r and a cached deposit d suspends
\* in the fee computation for d, and the value it then returns is Valid exactly
\* when the decimal string of the computed fee equals that of r.realizedLpFeePct,
\* and Invalid otherwise.
C1_FeeCrossCheck ==
    [][\A c \in CallIds :
        /\ (Invoked(c) /\ Decodable(calls'[c].ancillaryData))
             => \A r \in MatchingRelays(calls'[c].ancillaryData) :
                  \A d \in MatchingDeposits(r) :
                    ~r.settleable =>
                      /\ calls'[c].pc = "awaitFee"
                      /\ calls'[c].relay = r
                      /\ calls'[c].deposit = d
        /\ (calls[c].pc = "awaitFee" /\ calls'[c].pc = "done" /\ calls'[c].outcome = "returned")
             => IF BNToString(calls'[c].fee[1]) = BNToString(calls[c].relay.realizedLpFeePct)
                THEN ReturnedVerdict(calls'[c], ValidDigits)
                ELSE ReturnedVerdict(calls'[c], InvalidDigits)]_vars

C1_Witness ==
    \E c \in CallIds :
        /\ ReturnedVerdict(calls[c], ValidDigits)
        /\ calls[c].site = 112
        /\ calls[c].fee # << >>

\* C2: decodable ancillary data whose prefixed hash is the relayAncillaryDataHash
\* of no pending relay gets Invalid, whatever the cached deposits hold.
C2_NoRelayInvalid ==
    [][\A c \in CallIds :
        (/\ Invoked(c)
         /\ Decodable(calls'[c].ancillaryData)
         /\ MatchingRelays(calls'[c].ancillaryData) = {})
          => ReturnedVerdict(calls'[c], InvalidDigits)]_vars

C2_Witness ==
    \E c \in CallIds :
        /\ ReturnedVerdict(calls[c], InvalidDigits)
        /\ calls[c].site = 71
        /\ MatchingRelays(calls[c].ancillaryData) = {}
        /\ l1Relays # << >>
        /\ deposits # << >>

\* C3: a call whose hash matches a settleable pending relay gets Valid, whether or
\* not a cached deposit has the relay's depositHash.
C3_SettleableValid ==
    [][\A c \in CallIds :
        (/\ Invoked(c)
         /\ Decodable(calls'[c].ancillaryData)
         /\ \E r \in MatchingRelays(calls'[c].ancillaryData) : r.settleable)
          => ReturnedVerdict(calls'[c], ValidDigits)]_vars

C3_Witness ==
    \E c \in CallIds :
        /\ ReturnedVerdict(calls[c], ValidDigits)
        /\ calls[c].site = 81
        /\ \E r \in MatchingRelays(calls[c].ancillaryData) :
              r.settleable /\ MatchingDeposits(r) = {}

\* C4: a call whose hash matches a pending relay that is not settleable and whose
\* depositHash is that of no cached deposit gets Invalid.
C4_NoDepositInvalid ==
    [][\A c \in CallIds :
        (/\ Invoked(c)
         /\ Decodable(calls'[c].ancillaryData)
         /\ \E r \in MatchingRelays(calls'[c].ancillaryData) :
              ~r.settleable /\ MatchingDeposits(r) = {})
          => ReturnedVerdict(calls'[c], InvalidDigits)]_vars

C4_Witness ==
    \E c \in CallIds :
        /\ ReturnedVerdict(calls[c], InvalidDigits)
        /\ calls[c].site = 96
        /\ deposits # << >>
        /\ \E r \in MatchingRelays(calls[c].ancillaryData) :
              ~r.settleable /\ MatchingDeposits(r) = {}

\* C5: malformed ancillary data makes the call fail with the decode error; it
\* returns no verdict and the cached deposit list is as before.
C5_DecodeErrorPropagates ==
    [][\A c \in CallIds :
        (Invoked(c) /\ ~Decodable(calls'[c].ancillaryData))
          => /\ calls'[c].pc = "done"
             /\ calls'[c].outcome = "threw"
             /\ calls'[c].error = "DecodeError"
             /\ calls'[c].value = << >>
             /\ deposits' = deposits]_vars

C5_Witness ==
    \E c \in CallIds :
        /\ calls[c].pc = "done"
        /\ calls[c].outcome = "threw"
        /\ calls[c].site = 60
        /\ deposits # << >>

\* C6: once an update() call has finished, the pair (pending relays, cached deposits)
\* is the new pair or the pair from before the call: an update() that failed has
\* replaced neither collection.
C6_UpdateIsAtomic == upd.pc = "rejected" => ~hist.l1Changed

\* C7: when l1Client.update() or l2Client.update() fails, update() fails too and
\* the cached deposit list stays as it was: the list changes only in the step that
\* completes an update() both of whose refreshes resolved.
C7_FailedUpdateKeepsDeposits ==
    /\ [](AnyRejected(upd) => upd.pc # "resolved")
    /\ [][/\ (upd.pc = "await" /\ AnyRejected(upd) /\ upd'.pc # "await")
               => (upd'.pc = "rejected" /\ deposits' = deposits)
          /\ (deposits' # deposits)
               => (upd.pc = "await" /\ upd.l1 = "ok" /\ upd.l2 = "ok" /\ upd'.pc = "resolved")
         ]_vars

C7_Witness ==
    /\ upd.pc = "rejected"
    /\ upd.l1 = "failed"
    /\ upd.l2 = "ok"
    /\ deposits # << >>
    /\ l2Deposits # deposits

\* C8: a getHistoricalPrice call made while an update() is in progress reads the
\* pending relays and the deposit list of the same state: no call has read the
\* replaced relay collection together with a deposit list that this update() then
\* replaces.
C8_NoHalfUpdatedRead == ~(upd.pc = "resolved" /\ hist.midRead /\ hist.depChanged)

\* C9: before the first update() has completed, every call with decodable
\* ancillary data returns Invalid.
C9_InvalidBeforeFirstUpdate ==
    [][\A c \in CallIds :
        (Invoked(c) /\ ~hist.completed /\ Decodable(calls'[c].ancillaryData))
          => ReturnedVerdict(calls'[c], InvalidDigits)]_vars

\* C10: every value getHistoricalPrice returns is 0 or 1000000000000000000.
C10_VerdictIsZeroOrOneEther ==
    \A c \in CallIds :
        (calls[c].pc = "done" /\ calls[c].outcome = "returned")
          => /\ Len(calls[c].value) = 1
             /\ BNToString(calls[c].value[1]) \in {InvalidDigits, ValidDigits}

C10_Witness ==
    \E c \in CallIds :
        /\ ReturnedVerdict(calls[c], ValidDigits)
        /\ Len(BNToString(calls[c].value[1])) = 19

\* C11: getHistoricalPrice never mutates snapshot data: every step of a call (the
\* lookups up to a return, a decode failure, the return or the failure after the
\* fee computation) leaves the pending relays, the L2 client's deposits and the
\* cached deposit list as they were.
C11_CallsLeaveSnapshotsAlone ==
    [][(calls' # calls)
         => (l1Relays' = l1Relays /\ l2Deposits' = l2Deposits /\ deposits' = deposits)]_vars

C11_Witness ==
    \E c \in DOMAIN calls :
        /\ calls[c].pc = "done"
        /\ calls[c].outcome = "threw"
        /\ calls[c].site = 100
        /\ l1Relays # << >>
        /\ deposits # << >>

\* C12: every Invalid verdict comes with exactly one debug event that carries the
\* triggering relay record, and with no exception.
C12_InvalidIsLoggedWithRelay ==
    \A c \in DOMAIN calls :
        ReturnedVerdict(calls[c], InvalidDigits)
          => /\ calls[c].site \in {71, 96, 108}
             /\ Len(calls[c].log) = 1
             /\ calls[c].log[1].relay # << >>

\* C13: ancillary data that does not decode into a record with a relayHash field
\* makes the call fail; it is never answered with a verdict.
C13_MissingRelayHashIsAnError ==
    [][\A c \in DOMAIN calls :
        (/\ Invoked(c)
         /\ \/ ~Decodable(calls'[c].ancillaryData)
            \/ "relayHash" \notin DOMAIN parseAncillaryData(calls'[c].ancillaryData).value)
          => (calls'[c].pc = "done" /\ calls'[c].outcome = "threw")]_vars

\* Outcomes of the synchronous part of getHistoricalPrice to compare calls by: the
\* one the decision order gives against the current snapshots, and the ones it
\* gives when the relays or the deposits are taken away.
ImmediateOutcomes(anc) ==
    {Adjudicate(anc, l1Relays, deposits),
     Adjudicate(anc, << >>, deposits),
     Adjudicate(anc, l1Relays, << >>)}

\* Calling now with this time and ancillary data leaves rec in the call record.
CallYields(c, time, anc, rec) == ENABLED (GetHistoricalPrice(c, time, anc) /\ calls'[c] = rec)

\* The values of `time` with which a call now leaves rec in the call record.
YieldingTimes(c, anc, rec) == {t \in Times : CallYields(c, t, anc, rec)}

\* C14: the verdict does not depend on the time argument: in every state, a call
\* has an outcome, and whatever outcome it has with one time it has with every time.
C14_TimeIsIgnored ==
    \A c \in DOMAIN calls, anc \in AncillaryInputs :
        calls[c].pc # "awaitFee"
          => /\ \E rec \in ImmediateOutcomes(anc) : YieldingTimes(c, anc, rec) # {}
             /\ \A rec \in ImmediateOutcomes(anc) : YieldingTimes(c, anc, rec) \in {{}, Times}

C14_Witness ==
    \E c \in DOMAIN calls :
        /\ ReturnedVerdict(calls[c], ValidDigits)
        /\ \A t \in Times : CallYields(c, t, calls[c].ancillaryData, calls[c])

\* How a call was settled: at a return of the synchronous part, or in the fee
\* cross-check.
SyncSites == {60, 71, 81, 96}
Path(call) == IF call.pc = "done" /\ call.site \in SyncSites THEN call.site ELSE 0

\* What the fee computation gave a settled call.
FeeResult(call) == [failed |-> (call.outcome = "threw"), fee |-> call.fee]

\* C15: calls with the same ancillary data against unchanged snapshots are settled
\* by the same rule, and with the same fee-computation result they end alike.
C15_Repeatable ==
    \A c1, c2 \in DOMAIN calls :
        (/\ calls[c1].pc # "idle"
         /\ calls[c2].pc # "idle"
         /\ calls[c1].ancillaryData = calls[c2].ancillaryData)
          => /\ Path(calls[c1]) = Path(calls[c2])
             /\ (/\ calls[c1].pc = "done"
                 /\ calls[c2].pc = "done"
                 /\ FeeResult(calls[c1]) = FeeResult(calls[c2]))
                  => (/\ calls[c1].outcome = calls[c2].outcome
                      /\ calls[c1].value = calls[c2].value)

C15_Witness ==
    \E c1, c2 \in DOMAIN calls :
        /\ c1 # c2
        /\ ReturnedVerdict(calls[c1], InvalidDigits)
        /\ ReturnedVerdict(calls[c2], InvalidDigits)
        /\ calls[c1].ancillaryData = calls[c2].ancillaryData
        /\ calls[c1].site = 108
        /\ calls[c2].site = 108

\* C16: getPriceFeedDecimals is 18 in every reachable state, and that is the
\* scaling of the Valid verdict: what the two `return toBNWei(isRelayValid.Yes)`
\* statements (lines 81 and 112) return reads as a 1 followed by
\* getPriceFeedDecimals zeros.
C16_DecimalsIsEighteen ==
    /\ getPriceFeedDecimals = 18
    /\ \A c \in DOMAIN calls :
         (calls[c].pc = "done" /\ calls[c].outcome = "returned" /\ calls[c].site \in {81, 112})
           => BNToString(calls[c].value[1]) = <<1>> \o Zeros(getPriceFeedDecimals)

\* A Valid verdict has been returned after a completed update.
C16_Witness ==
    /\ hist.completed /\ upd.pc = "resolved"
    /\ \E c \in DOMAIN calls : ReturnedVerdict(calls[c], ValidDigits) /\ calls[c].site = 112

\* C17: within one update(), the cached deposit list is assigned only once both
\* client updates have completed successfully, in whichever order; no step
\* before that point changes it, and update() resolves only past that point.
C17_SwapAfterBothClients ==
    /\ [](upd.pc = "resolved" => (upd.l1 = "ok" /\ upd.l2 = "ok"))
    /\ [][deposits' # deposits
            => /\ upd.pc = "await" /\ upd.l1 = "ok" /\ upd.l2 = "ok"
               /\ upd'.pc = "resolved"
               /\ deposits' = l2Deposits]_vars

\* An update has resolved and its assignment changed the cached deposit list.
C17_Witness == upd.pc = "resolved" /\ hist.depChanged /\ deposits # << >>

\* C18: once update() has resolved, the cached deposit list is the L2 client's
\* full deposit set: the same deposits in the same order, none of the old list
\* kept unless still reported, none of the reported ones missing.
C18_WholesaleReplacement ==
    upd.pc = "resolved"
      => /\ deposits = l2Deposits
         /\ \A d \in Deposits :
              (\E i \in DOMAIN deposits : deposits[i] = d)
                <=> (\E j \in DOMAIN l2Deposits : l2Deposits[j] = d)

\* An update has resolved and dropped every deposit of the old list.
C18_Witness == upd.pc = "resolved" /\ hist.depChanged /\ deposits = << >>

\* The call is at its suspension point: the fee computation has been invoked.
FeeInvoked(call) == call.pc = "awaitFee"

\* The rules that come before the fee cross-check decide this ancillary data.
DecidedEarly(anc) ==
    \/ MatchingRelays(anc) = {}
    \/ \E r \in MatchingRelays(anc) : r.settleable
    \/ \E r \in MatchingRelays(anc) : MatchingDeposits(r) = {}

\* C19: the rules are applied in order with short-circuit.  A call invokes the
\* fee computation only when a relay matched, it is not settleable and a deposit
\* matched; a call decided by the no-relay, settleable or no-deposit rule returns
\* in the step that made it, with no fee computed; and a call that invoked the
\* fee computation settles at its next step, so it invokes it once.
C19_FeeOnlyAfterEarlierRules ==
    [][\A c \in DOMAIN calls :
        /\ (Invoked(c) /\ FeeInvoked(calls'[c]))
             => /\ Decodable(calls'[c].ancillaryData)
                /\ \E r \in MatchingRelays(calls'[c].ancillaryData) :
                      ~r.settleable /\ MatchingDeposits(r) # {}
                /\ ~DecidedEarly(calls'[c].ancillaryData)
        /\ (Invoked(c) /\ Decodable(calls'[c].ancillaryData)
              /\ DecidedEarly(calls'[c].ancillaryData))
             => /\ calls'[c].pc = "done" /\ calls'[c].outcome = "returned"
                /\ calls'[c].site \in {71, 81, 96}
                /\ calls'[c].fee = << >>
        /\ (FeeInvoked(calls[c]) /\ calls'[c] # calls[c])
             => /\ calls'[c].pc = "done"
                /\ calls'[c].site \in {100, 108, 112}
                /\ calls'[c].ancillaryData = calls[c].ancillaryData]_vars

\* The settleable rule decided a call although a cached deposit matched its relay:
\* the call returned Valid without any fee computed.
C19_Witness ==
    \E c \in DOMAIN calls :
        /\ ReturnedVerdict(calls[c], ValidDigits)
        /\ calls[c].site = 81
        /\ calls[c].fee = << >>
        /\ \E r \in MatchingRelays(calls[c].ancillaryData) :
              r.settleable /\ MatchingDeposits(r) # {}

\* What a call with this ancillary data returns when it runs alone against the
\* current snapshots: lines 60-97 and, if they reach the await, lines 100-112
\* with the given result of the fee computation, nothing running in between.
RunAlone(anc, feeResult) ==
    LET first == Adjudicate(anc, l1Relays, deposits) IN
    IF first.pc = "done" THEN first
    ELSE IF feeResult.failed THEN Thrown(anc, "FeeError", 100)
    ELSE AfterFee(first, feeResult.fee[1])

\* C20: with no update() running, however the calls interleave at their
\* suspension points, every settled call has the outcome it would have running
\* alone against the same snapshots, every suspended call holds the relay and the
\* deposit it would hold running alone, and no step changes the cached state.
C20_ConcurrentCallsAreIsolated ==
    /\ [](\A c \in DOMAIN calls :
            /\ calls[c].pc = "done"
                 => calls[c] = RunAlone(calls[c].ancillaryData, FeeResult(calls[c]))
            /\ calls[c].pc = "awaitFee"
                 => calls[c] = Adjudicate(calls[c].ancillaryData, l1Relays, deposits))
    /\ [][UNCHANGED <<l1Relays, l2Deposits, deposits>>]_vars

\* Two calls were suspended on different relays; one has been settled by the fee
\* cross-check while the other is still suspended.
C20_Witness ==
    \E c1, c2 \in DOMAIN calls :
        /\ calls[c1].pc = "done" /\ calls[c1].site = 112
        /\ calls[c2].pc = "awaitFee"
        /\ calls[c2].ancillaryData # calls[c1].ancillaryData

\* C21: a suspended call that gets no fee value back ends in a failure: it
\* returns no verdict, Valid or Invalid, and the cached deposit list stays as it is.
C21_FeeFailurePropagates ==
    [][\A c \in DOMAIN calls :
        (FeeInvoked(calls[c]) /\ calls'[c] # calls[c] /\ calls'[c].fee = << >>)
          => /\ calls'[c].pc = "done"
             /\ calls'[c].outcome = "threw"
             /\ calls'[c].value = << >>
             /\ ~ReturnedVerdict(calls'[c], ValidDigits)
             /\ ~ReturnedVerdict(calls'[c], InvalidDigits)
             /\ deposits' = deposits]_vars

\* A call failed at the await on a deposit that is still cached.
C21_Witness ==
    \E c \in DOMAIN calls :
        /\ calls[c].pc = "done" /\ calls[c].outcome = "threw" /\ calls[c].error = "FeeError"
        /\ \E r \in MatchingRelays(calls[c].ancillaryData) : MatchingDeposits(r) # {}

\* C22: a suspended call that resumes with a fee value returns the verdict that
\* the relay it found before suspending and that fee value give: Valid when the
\* relay's claimed fee reads the same as the fee value, Invalid otherwise,
\* whatever the snapshots hold by then.
C22_ResumesOnRecordsFound ==
    [][\A c \in DOMAIN calls :
        (FeeInvoked(calls[c]) /\ calls'[c] # calls[c] /\ calls'[c].outcome = "returned")
          => /\ calls'[c].site \in {108, 112}
             /\ Len(calls'[c].fee) = 1
             /\ IF BNToString(calls'[c].fee[1]) = BNToString(calls[c].relay.realizedLpFeePct)
                THEN ReturnedVerdict(calls'[c], ValidDigits)
                ELSE ReturnedVerdict(calls'[c], InvalidDigits)
                       /\ calls'[c].log[1].relay = <<calls[c].relay>>]_vars

\* A call passed the fee cross-check, an update has completed, and the snapshots
\* hold neither that relay nor a deposit with its hash.
C22_Witness ==
    /\ upd.pc = "resolved"
    /\ \E c \in DOMAIN calls :
          /\ ReturnedVerdict(calls[c], ValidDigits) /\ calls[c].site = 112
          /\ MatchingRelays(calls[c].ancillaryData) = {}
          /\ deposits = << >>

(***************************************************************************)
(* BridgePool.  Token amounts are whole tokens.  Percentages are fixed     *)
(* point with 18 decimals in the contract; here they are counted in units  *)
(* of 1e16, which is exact for the percentages used:                       *)
(* (p * 1e16 * amount) / 1e18 and (p * amount) / 100 have the same floor.  *)
(***************************************************************************)
\* 1e18, 0.25e18 and 0.5e18 in units of 1e16.
Pct1e18 == 100
Pct025e18 == 25
Pct05e18 == 50

\* address(0), bytes32(0)
ZeroAddress == "0x0"
ZeroHash == << >>

L1Token == "l1Token"
OptimisticOracleAddress == "optimisticOracle"

\* Who sends transactions to the pool.
SlowRelayers == {"slowRelayer"}
InstantRelayers == {"instantRelayer1", "instantRelayer2"}
PriceDisputedCallers == {OptimisticOracleAddress, "stranger"}

\* Most relays the pool creates in one run.
MaxNumberOfRelays == 2
\* Last value of the clock.
MaxTime == 1
\* Most LP tokens in circulation.
MaxTotalSupply == 50

\* bridgeAdmin.proposerBondPct(): 10%.
ProposerBondPct == 10
\* bridgeAdmin.optimisticOracleLiveness() as the admin may have set it when a relay is made.
Livenesses == {1, 2}

\* The L2 deposits relayers know of.
DepositOf(id, amount) ==
    [chainId |-> 10, depositId |-> id, l1Recipient |-> "recipient", l2Sender |-> "sender",
     amount |-> amount, slowRelayFeePct |-> 10, instantRelayFeePct |-> 10, quoteTimestamp |-> 0]

PoolDeposits == {DepositOf(1, 10), DepositOf(2, 20)}

\* realizedLpFeePct values relayers pass: 10% and 50% (which is not below the limit).
RealizedLpFeePcts == {10, 50}

\* What liquidity providers add at once.
LiquidityAmounts == {25}

\* keccak256 is taken to be free of collisions: a hash stands for its preimage.
keccak256(preimage) == <<"keccak256", preimage>>

RelayDataOf(relayState, slowRelayer, relayId, realizedLpFeePct, priceRequestTime) ==
    [relayState |-> relayState, slowRelayer |-> slowRelayer, relayId |-> relayId,
     realizedLpFeePct |-> realizedLpFeePct, priceRequestTime |-> priceRequestTime]

getDepositHash(depositData) ==
    keccak256(<<depositData.chainId, depositData.depositId, depositData.l1Recipient,
                depositData.l2Sender, L1Token, depositData.amount,
                depositData.slowRelayFeePct, depositData.instantRelayFeePct,
                depositData.quoteTimestamp>>)

getRelayDataHash(relayData) ==
    keccak256(<<relayData.relayState, relayData.slowRelayer, relayData.relayId,
                relayData.realizedLpFeePct, relayData.priceRequestTime>>)

getRelayHash(depositData, relayData) ==
    keccak256(<<depositData.chainId, depositData.depositId, depositData.l1Recipient,
                depositData.l2Sender, depositData.amount, depositData.slowRelayFeePct,
                depositData.instantRelayFeePct, depositData.quoteTimestamp,
                relayData.relayId, relayData.realizedLpFeePct, L1Token>>)

getInstantRelayHash(depositHash, relayData) ==
    keccak256(<<depositHash, relayData.realizedLpFeePct>>)

\* AncillaryData.appendKeyValueBytes32("", "relayHash", relayHash)
getRelayAncillaryData(relayHash) == <<"relayHash", ":", relayHash>>

getAmountFromPct(percent, amount) == (percent * amount) \div Pct1e18

getProposerBond(amount) == getAmountFromPct(ProposerBondPct, amount)

\* Reading, writing and deleting an entry of a Solidity mapping.
ReadMapping(mapping, key, zero) == IF key \in DOMAIN mapping THEN mapping[key] ELSE zero

WriteMapping(mapping, key, value) ==
    [k \in DOMAIN mapping \cup {key} |-> IF k = key THEN value ELSE mapping[k]]

DeleteMapping(mapping, key) == [k \in DOMAIN mapping \ {key} |-> mapping[k]]

(***************************************************************************)
(* The optimistic oracle, as the pool uses it.  A request is keyed by its  *)
(* timestamp and ancillary data (requester and identifier are the pool's); *)
(* the caller passes the request struct and the oracle checks it against   *)
(* the one it stored.                                                      *)
(***************************************************************************)
\* int256(1e18), the price that stands for True, and 0.
TruePrice == toBN(DecimalString(1, 18))
FalsePrice == toBN(<<0>>)

RequestKey(timestamp, ancillaryData) == <<timestamp, ancillaryData>>

NoRequest == [state |-> "Invalid"]

\* A request struct nobody stored: the oracle rejects it.
ForgedRequest ==
    [state |-> "Settled", expirationTime |-> 0, proposedPrice |-> TruePrice,
     resolvedPrice |-> TruePrice]

StoredRequest(key) == ReadMapping(requests, key, NoRequest)

\* The request passed its liveness without a dispute.
Expired(request) == request.state = "Proposed" /\ currentTime >= request.expirationTime

\* optimisticOracle.settle: the resolved price, or a revert.
OracleSettle(key, request) ==
    IF request # StoredRequest(key) \/ request.state = "Invalid" THEN [ok |-> FALSE]
    ELSE IF Expired(request) THEN [ok |-> TRUE, resolvedPrice |-> request.proposedPrice]
    ELSE IF request.state = "Resolved" THEN [ok |-> TRUE, resolvedPrice |-> request.resolvedPrice]
    ELSE [ok |-> FALSE]

\* optimisticOracle.hasPrice: a revert on a struct it did not store.
OracleHasPrice(key, request) ==
    IF request # StoredRequest(key) \/ request.state = "Invalid" THEN [ok |-> FALSE]
    ELSE [ok |-> TRUE,
          value |-> (request.state \in {"Settled", "Resolved"} \/ Expired(request))]

(***************************************************************************)
(* Liquidity provider functions.  One liquidity provider holds every LP    *)
(* token, and senders hold and have approved the tokens a call pulls from  *)
(* them.  A call that reverts changes nothing.                             *)
(***************************************************************************)
\* _lpFeeRatePerSecond the pool is constructed with: fees are not released over time.
LpFeeRatePerSecond == 0

Reverts ==
    /\ UNCHANGED <<numberOfRelays, liquidReserves, utilizedReserves, pendingReserves,
                   undistributedLpFees, lastLpFeeUpdate, poolRelays, relayRequestAncillaryData,
                   instantRelays, totalSupply, l1TokenBalance, requests, currentTime, created>>

\* The reserve counters sync(), the fee update and the fee allocation work on.
Counters(liquid, utilized, undistributed, lastUpdate) ==
    [liquidReserves |-> liquid, utilizedReserves |-> utilized,
     undistributedLpFees |-> undistributed, lastLpFeeUpdate |-> lastUpdate]

CurrentCounters == Counters(liquidReserves, utilizedReserves, undistributedLpFees, lastLpFeeUpdate)

Min(a, b) == IF a < b THEN a ELSE b

getAccumulatedFees(k) ==
    Min((k.undistributedLpFees * LpFeeRatePerSecond * (currentTime - k.lastLpFeeUpdate))
            \div Pct1e18,
        k.undistributedLpFees)

updateAccumulatedLpFees(k) ==
    [k EXCEPT !.undistributedLpFees = @ - getAccumulatedFees(k),
              !.lastLpFeeUpdate = currentTime]

allocateLpFees(k, allocatedLpFees) ==
    IF allocatedLpFees > 0
    THEN [k EXCEPT !.undistributedLpFees = @ + allocatedLpFees,
                   !.utilizedReserves = @ + allocatedLpFees]
    ELSE k

\* sync() with the token balance the pool has when it runs.
sync(k, balance) ==
    IF balance > k.liquidReserves
    THEN [k EXCEPT !.utilizedReserves = @ - (balance - k.liquidReserves),
                   !.liquidReserves = balance]
    ELSE k

\* liquidReserves - undistributedLpFees + utilizedReserves, each step in uint256.
RateNumerator(k) == k.liquidReserves - k.undistributedLpFees + k.utilizedReserves

\* exchangeRateCurrent(): the counters it leaves and the rate, in units of 1e16;
\* ok is false when a subtraction underflows.
exchangeRateCurrent(k, balance) ==
    IF totalSupply = 0 THEN [ok |-> TRUE, counters |-> k, rate |-> Pct1e18]
    ELSE LET synced == sync(updateAccumulatedLpFees(k), balance) IN
         IF synced.liquidReserves < synced.undistributedLpFees \/ RateNumerator(synced) < 0
         THEN [ok |-> FALSE]
         ELSE [ok |-> TRUE, counters |-> synced,
               rate |-> (RateNumerator(synced) * Pct1e18) \div totalSupply]

AssignCounters(k) ==
    /\ liquidReserves' = k.liquidReserves
    /\ utilizedReserves' = k.utilizedReserves
    /\ undistributedLpFees' = k.undistributedLpFees
    /\ lastLpFeeUpdate' = k.lastLpFeeUpdate

addLiquidity(l1TokenAmount) ==
    LET balance == l1TokenBalance + l1TokenAmount
        rate == exchangeRateCurrent(CurrentCounters, balance)
    IN
    /\ totalSupply + l1TokenAmount <= MaxTotalSupply
    /\ IF ~rate.ok \/ rate.rate = 0 THEN Reverts
       ELSE LET lpTokensToMint == (l1TokenAmount * Pct1e18) \div rate.rate IN
            /\ l1TokenBalance' = balance
            /\ totalSupply' = totalSupply + lpTokensToMint
            /\ AssignCounters([rate.counters EXCEPT !.liquidReserves = @ + l1TokenAmount])
            /\ UNCHANGED <<numberOfRelays, pendingReserves, poolRelays,
                           relayRequestAncillaryData, instantRelays, requests,
                           currentTime, created>>
    /\ UNCHANGED <<feedVars, polygonVars>>

\* How removeLiquidity ends once the exchange rate is known.
removeLiquidityStatus(lpTokenAmount, l1TokensToReturn, k) ==
    IF k.liquidReserves < pendingReserves + l1TokensToReturn
    THEN "Utilization too high to remove"
    ELSE IF lpTokenAmount > totalSupply \/ l1TokensToReturn > l1TokenBalance
    THEN "reverted"
    ELSE "ok"

removeLiquidity(lpTokenAmount) ==
    LET rate == exchangeRateCurrent(CurrentCounters, l1TokenBalance) IN
    /\ IF ~rate.ok THEN Reverts
       ELSE LET l1TokensToReturn == (lpTokenAmount * rate.rate) \div Pct1e18
                status == removeLiquidityStatus(lpTokenAmount, l1TokensToReturn, rate.counters)
            IN
            IF status # "ok" THEN Reverts
            ELSE /\ totalSupply' = totalSupply - lpTokenAmount
                 /\ AssignCounters([rate.counters EXCEPT !.liquidReserves = @ - l1TokensToReturn])
                 /\ l1TokenBalance' = l1TokenBalance - l1TokensToReturn
                 /\ UNCHANGED <<numberOfRelays, pendingReserves, poolRelays,
                                relayRequestAncillaryData, instantRelays, requests,
                                currentTime, created>>
    /\ UNCHANGED <<feedVars, polygonVars>>

(***************************************************************************)
(* Relayer functions.                                                      *)
(***************************************************************************)
Relay(depositHash) == ReadMapping(poolRelays, depositHash, ZeroHash)

\* require(relays[depositHash] == bytes32(0), "Pending relay exists") left out.
relayDepositStatus_NoPendingCheck(depositData, realizedLpFeePct) ==
    IF ~(depositData.slowRelayFeePct < Pct025e18 /\ depositData.instantRelayFeePct < Pct025e18
           /\ realizedLpFeePct < Pct05e18)
    THEN "reverted"
    ELSE IF ~(l1TokenBalance >= depositData.amount + getProposerBond(depositData.amount)
                /\ liquidReserves >= depositData.amount + getProposerBond(depositData.amount))
    THEN "Insufficient pool balance"
    ELSE "ok"

\* The requires of relayDeposit in the order they are met.
relayDepositStatus(depositData, realizedLpFeePct) ==
    IF ~(depositData.slowRelayFeePct < Pct025e18 /\ depositData.instantRelayFeePct < Pct025e18
           /\ realizedLpFeePct < Pct05e18)
    THEN "reverted"
    ELSE IF Relay(getDepositHash(depositData)) # ZeroHash
    THEN "Pending relay exists"
    ELSE IF ~(l1TokenBalance >= depositData.amount + getProposerBond(depositData.amount)
                /\ liquidReserves >= depositData.amount + getProposerBond(depositData.amount))
    THEN "Insufficient pool balance"
    ELSE "ok"

\* optimisticOracle.requestAndProposePriceFor: the request the oracle stores.
ProposedRequest(liveness) ==
    [state |-> "Proposed", expirationTime |-> currentTime + liveness,
     proposedPrice |-> TruePrice, resolvedPrice |-> FalsePrice]

\* relayId: numberOfRelays++ (the mutant reads the counter after the increment).
NewRelayId_PreIncrement == numberOfRelays + 1

NewRelayId == numberOfRelays

relayDeposit(depositData, realizedLpFeePct, sender, liveness) ==
    LET status == relayDepositStatus(depositData, realizedLpFeePct)
        depositHash == getDepositHash(depositData)
        priceRequestTime == currentTime
        relayData == RelayDataOf("Pending", sender, NewRelayId, realizedLpFeePct,
                                 priceRequestTime)
        ancillaryData == getRelayAncillaryData(getRelayHash(depositData, relayData))
    IN
    /\ numberOfRelays < MaxNumberOfRelays
    /\ IF status # "ok" THEN Reverts
       ELSE /\ numberOfRelays' = numberOfRelays + 1
            /\ poolRelays' = WriteMapping(poolRelays, depositHash, getRelayDataHash(relayData))
            /\ relayRequestAncillaryData' =
                   WriteMapping(relayRequestAncillaryData, keccak256(ancillaryData), depositHash)
            /\ requests' = WriteMapping(requests, RequestKey(priceRequestTime, ancillaryData),
                                        ProposedRequest(liveness))
            /\ pendingReserves' = pendingReserves + depositData.amount
            /\ created' = Append(created, [depositData |-> depositData, relayData |-> relayData])
            /\ UNCHANGED <<liquidReserves, utilizedReserves, undistributedLpFees,
                           lastLpFeeUpdate, instantRelays, totalSupply, l1TokenBalance,
                           currentTime>>
    /\ UNCHANGED <<feedVars, polygonVars>>

validateRelayDataHash(depositHash, relayData) ==
    Relay(depositHash) = getRelayDataHash(relayData)

InstantRelayer(instantRelayHash) == ReadMapping(instantRelays, instantRelayHash, ZeroAddress)

\* The check for an existing instant relayer is left out.
speedUpRelayStatus_Overwrites(depositData, relayData) ==
    IF ~validateRelayDataHash(getDepositHash(depositData), relayData)
    THEN "Hashed relay params do not match existing relay hash for deposit"
    ELSE IF relayData.relayState # "Pending"
    THEN "Relay cannot be sped up"
    ELSE "ok"

speedUpRelayStatus(depositData, relayData) ==
    IF ~validateRelayDataHash(getDepositHash(depositData), relayData)
    THEN "Hashed relay params do not match existing relay hash for deposit"
    ELSE IF ~(relayData.relayState = "Pending"
                /\ InstantRelayer(getInstantRelayHash(getDepositHash(depositData), relayData))
                      = ZeroAddress)
    THEN "Relay cannot be sped up"
    ELSE "ok"

speedUpRelay(depositData, relayData, sender) ==
    LET status == speedUpRelayStatus(depositData, relayData)
        instantRelayHash == getInstantRelayHash(getDepositHash(depositData), relayData)
    IN
    /\ IF status # "ok" THEN Reverts
       ELSE /\ instantRelays' = WriteMapping(instantRelays, instantRelayHash, sender)
            /\ UNCHANGED <<numberOfRelays, liquidReserves, utilizedReserves, pendingReserves,
                           undistributedLpFees, lastLpFeeUpdate, poolRelays,
                           relayRequestAncillaryData, totalSupply, l1TokenBalance, requests,
                           currentTime, created>>
    /\ UNCHANGED <<feedVars, polygonVars>>

\* What settleRelay pays out and books for a relay.
InstantRelayerOrRecipientAmount(depositData, relayData) ==
    depositData.amount
      - getAmountFromPct(relayData.realizedLpFeePct + depositData.slowRelayFeePct,
                         depositData.amount)

SlowRelayerAmount(depositData) ==
    getAmountFromPct(depositData.slowRelayFeePct, depositData.amount)

TotalAmountSent(depositData, relayData) ==
    InstantRelayerOrRecipientAmount(depositData, relayData) + SlowRelayerAmount(depositData)

\* The try/catch around optimisticOracle.settle: "ok" when the price of the
\* request named by the arguments is True, settledNow when this call settled it.
OraclePriceCheck(key, request) ==
    LET settled == OracleSettle(key, request) IN
    IF settled.ok
    THEN [status |-> IF settled.resolvedPrice = TruePrice THEN "ok"
                     ELSE "Settle relay iff price is True",
          settledNow |-> TRUE, resolvedPrice |-> settled.resolvedPrice]
    ELSE LET has == OracleHasPrice(key, request) IN
         IF ~has.ok THEN [status |-> "reverted", settledNow |-> FALSE]
         ELSE [status |-> IF has.value /\ request.resolvedPrice = TruePrice THEN "ok"
                          ELSE "Settle relay iff price is True",
               settledNow |-> FALSE]

\* The requires, transfers and checked subtractions of settleRelay in order.
settleRelayStatus(depositData, relayData, ancillaryData, request) ==
    IF ~validateRelayDataHash(getDepositHash(depositData), relayData)
    THEN "Hashed relay params do not match existing relay hash for deposit"
    ELSE IF relayData.relayState # "Pending"
    THEN "Already settled"
    ELSE LET price == OraclePriceCheck(RequestKey(relayData.priceRequestTime, ancillaryData),
                                       request) IN
         IF price.status # "ok" THEN price.status
         ELSE IF TotalAmountSent(depositData, relayData) > l1TokenBalance
                   \/ depositData.amount > pendingReserves
                   \/ TotalAmountSent(depositData, relayData) > liquidReserves
         THEN "reverted"
         ELSE "ok"

settleRelay(depositData, relayData, ancillaryData, request) ==
    LET status == settleRelayStatus(depositData, relayData, ancillaryData, request)
        depositHash == getDepositHash(depositData)
        key == RequestKey(relayData.priceRequestTime, ancillaryData)
        price == OraclePriceCheck(key, request)
        totalAmountSent == TotalAmountSent(depositData, relayData)
        counters ==
            allocateLpFees(
                updateAccumulatedLpFees(
                    [CurrentCounters EXCEPT !.liquidReserves = @ - totalAmountSent,
                                            !.utilizedReserves = @ + totalAmountSent]),
                getAmountFromPct(relayData.realizedLpFeePct, depositData.amount))
    IN
    /\ IF status # "ok" THEN Reverts
       ELSE /\ requests' = IF price.settledNow
                           THEN WriteMapping(requests, key,
                                    [request EXCEPT !.state = "Settled",
                                                    !.resolvedPrice = price.resolvedPrice])
                           ELSE requests
            /\ poolRelays' = WriteMapping(poolRelays, depositHash,
                                 getRelayDataHash([relayData EXCEPT !.relayState = "Finalized"]))
            /\ l1TokenBalance' = l1TokenBalance - totalAmountSent
            /\ pendingReserves' = pendingReserves - depositData.amount
            /\ AssignCounters(counters)
            /\ instantRelays' = DeleteMapping(instantRelays,
                                              getInstantRelayHash(depositHash, relayData))
            /\ relayRequestAncillaryData' =
                   DeleteMapping(relayRequestAncillaryData, keccak256(ancillaryData))
            /\ UNCHANGED <<numberOfRelays, totalSupply, currentTime, created>>
    /\ UNCHANGED <<feedVars, polygonVars>>

\* The modifier onlyFromOptimisticOracle.
onlyFromOptimisticOracle_Anyone(sender) == TRUE

onlyFromOptimisticOracle(sender) == sender = OptimisticOracleAddress

\* bytes32 depositHash = relayRequestAncillaryData[keccak256(ancillaryData)]
DisputedDepositHash(ancillaryData) ==
    ReadMapping(relayRequestAncillaryData, keccak256(ancillaryData), ZeroHash)

\* priceDisputed as the pool runs it: it touches relays and nothing else of the pool.
priceDisputed(ancillaryData, sender) ==
    /\ poolRelays' = IF ~onlyFromOptimisticOracle(sender) THEN poolRelays
                      ELSE DeleteMapping(poolRelays, DisputedDepositHash(ancillaryData))
    /\ UNCHANGED <<numberOfRelays, liquidReserves, utilizedReserves, pendingReserves,
                   undistributedLpFees, lastLpFeeUpdate, relayRequestAncillaryData,
                   instantRelays, totalSupply, l1TokenBalance, currentTime, created>>

\* Somebody other than the oracle calls priceDisputed.
CallPriceDisputed(ancillaryData, sender) ==
    /\ sender # OptimisticOracleAddress
    /\ priceDisputed(ancillaryData, sender)
    /\ UNCHANGED requests
    /\ UNCHANGED <<feedVars, polygonVars>>

\* optimisticOracle.disputePriceFor on a proposal within its liveness: the
\* request becomes Disputed and the oracle calls the requester's priceDisputed.
disputePriceFor(key) ==
    /\ StoredRequest(key).state = "Proposed"
    /\ ~Expired(StoredRequest(key))
    /\ requests' = WriteMapping(requests, key, [StoredRequest(key) EXCEPT !.state = "Disputed"])
    /\ priceDisputed(key[2], OptimisticOracleAddress)
    /\ UNCHANGED <<feedVars, polygonVars>>

\* The DVM resolves a disputed request.
ResolveDispute(key, price) ==
    /\ StoredRequest(key).state = "Disputed"
    /\ requests' = WriteMapping(requests, key,
                       [StoredRequest(key) EXCEPT !.state = "Resolved", !.resolvedPrice = price])
    /\ UNCHANGED <<numberOfRelays, liquidReserves, utilizedReserves, pendingReserves,
                   undistributedLpFees, lastLpFeeUpdate, poolRelays, relayRequestAncillaryData,
                   instantRelays, totalSupply, l1TokenBalance, currentTime, created>>
    /\ UNCHANGED <<feedVars, polygonVars>>

\* Time passes.
Tick ==
    /\ currentTime < MaxTime
    /\ currentTime' = currentTime + 1
    /\ UNCHANGED <<numberOfRelays, liquidReserves, utilizedReserves, pendingReserves,
                   undistributedLpFees, lastLpFeeUpdate, poolRelays, relayRequestAncillaryData,
                   instantRelays, totalSupply, l1TokenBalance, requests, created>>
    /\ UNCHANGED <<feedVars, polygonVars>>

\* Tokens bridged from L2 over the canonical bridge reach the pool: the amount
\* of a deposit the pool has paid out and still counts as utilized.
TokensArrive(amount) ==
    /\ utilizedReserves >= amount
    /\ l1TokenBalance + amount <= MaxTotalSupply
    /\ l1TokenBalance' = l1TokenBalance + amount
    /\ UNCHANGED <<numberOfRelays, liquidReserves, utilizedReserves, pendingReserves,
                   undistributedLpFees, lastLpFeeUpdate, poolRelays, relayRequestAncillaryData,
                   instantRelays, totalSupply, requests, currentTime, created>>
    /\ UNCHANGED <<feedVars, polygonVars>>

\* The relayedAmount callers pass: liquidityUtilizationCurrent() passes 0.
RelayedAmounts == {0} \cup {d.amount : d \in PoolDeposits}

\* pendingReserves + relayedAmount, then utilizedReserves added or its
\* magnitude subtracted, in uint256: below zero is an underflow.
UtilizationNumerator(k, relayedAmount) == pendingReserves + relayedAmount + k.utilizedReserves

\* liquidityUtilizationPostRelay(): the counters sync() leaves and the ratio in
\* units of 1e16; ok is false when the subtraction underflows.
UtilizationPostRelay(relayedAmount) ==
    LET synced == sync(CurrentCounters, l1TokenBalance)
        numerator == UtilizationNumerator(synced, relayedAmount)
    IN
    IF numerator < 0 THEN [ok |-> FALSE]
    ELSE [ok |-> TRUE, counters |-> synced,
          value |-> IF numerator = 0 /\ synced.liquidReserves = 0 THEN 0
                    ELSE IF numerator > 0 /\ synced.liquidReserves = 0 THEN Pct1e18
                    ELSE (numerator * Pct1e18) \div synced.liquidReserves]

liquidityUtilizationPostRelay(relayedAmount) ==
    LET result == UtilizationPostRelay(relayedAmount) IN
    /\ IF ~result.ok THEN Reverts
       ELSE /\ AssignCounters(result.counters)
            /\ UNCHANGED <<numberOfRelays, pendingReserves, poolRelays,
                           relayRequestAncillaryData, instantRelays, totalSupply,
                           l1TokenBalance, requests, currentTime, created>>
    /\ UNCHANGED <<feedVars, polygonVars>>

(***************************************************************************)
(* The pool's specification: the validator stays as constructed.           *)
(***************************************************************************)
\* The relay data callers pass for the i-th relay made: as made, or marked Finalized.
KnownRelayData(i) ==
    {created[i].relayData, [created[i].relayData EXCEPT !.relayState = "Finalized"]}

\* The ancillary data of the relays made.
KnownAncillaryData ==
    {getRelayAncillaryData(getRelayHash(created[i].depositData, created[i].relayData)) :
        i \in DOMAIN created}

\* The request structs a caller passes along with a timestamp and ancillary data.
KnownRequests(relayData, ancillaryData) ==
    {StoredRequest(RequestKey(relayData.priceRequestTime, ancillaryData)), ForgedRequest}

InitPool == Init

NextPool ==
    \/ \E amount \in LiquidityAmounts : addLiquidity(amount)
    \/ \E amount \in LiquidityAmounts : removeLiquidity(amount)
    \/ \E d \in PoolDeposits, fee \in RealizedLpFeePcts, sender \in SlowRelayers,
          liveness \in Livenesses : relayDeposit(d, fee, sender, liveness)
    \/ \E i \in DOMAIN created, sender \in InstantRelayers :
          \E r \in KnownRelayData(i) : speedUpRelay(created[i].depositData, r, sender)
    \/ \E i \in DOMAIN created, anc \in KnownAncillaryData :
          \E r \in KnownRelayData(i) :
             \E request \in KnownRequests(r, anc) :
                settleRelay(created[i].depositData, r, anc, request)
    \/ \E anc \in KnownAncillaryData, sender \in PriceDisputedCallers :
          CallPriceDisputed(anc, sender)
    \/ \E key \in DOMAIN requests : disputePriceFor(key)
    \/ \E key \in DOMAIN requests, price \in {TruePrice, FalsePrice} : ResolveDispute(key, price)
    \/ Tick
    \/ \E d \in PoolDeposits : TokensArrive(d.amount)
    \/ \E relayedAmount \in RelayedAmounts : liquidityUtilizationPostRelay(relayedAmount)

SpecPool == InitPool /\ [][NextPool]_vars

(***************************************************************************)
(* Properties of BridgePool.                                               *)
(***************************************************************************)
\* The first require of relayDeposit passes.
FeePctsWithinLimits(depositData, realizedLpFeePct) ==
    /\ depositData.slowRelayFeePct < Pct025e18
    /\ depositData.instantRelayFeePct < Pct025e18
    /\ realizedLpFeePct < Pct05e18

\* The deposit and the relay id of the relay a step creates.
CreatedNow == created'[Len(created')]

\* C23 as stated: relayDeposit for a deposit whose relays entry is non-empty
\* always reverts with 'Pending relay exists'.
C23_RevertsWithPendingRelayExists ==
    \A d \in PoolDeposits, fee \in RealizedLpFeePcts :
        Relay(getDepositHash(d)) # ZeroHash
            => relayDepositStatus(d, fee) = "Pending relay exists"

\* C23, amended: a deposit has at most one relay attempt at a time.  relayDeposit
\* for a deposit whose relays entry is non-empty reverts, with 'Pending relay
\* exists' when the fee percentages are within the limits of the first require
\* and without a reason otherwise, and no step creates a relay for such a deposit.
C23_OneRelayAttemptPerDeposit ==
    /\ [](\A d \in PoolDeposits, fee \in RealizedLpFeePcts :
            Relay(getDepositHash(d)) # ZeroHash
                => relayDepositStatus(d, fee)
                     = IF FeePctsWithinLimits(d, fee) THEN "Pending relay exists"
                       ELSE "reverted")
    /\ [][numberOfRelays' # numberOfRelays
            => Relay(getDepositHash(CreatedNow.depositData)) = ZeroHash]_vars

\* A deposit with a relay, while relayDeposit can still be called for it with
\* fees within and beyond the limits.
C23_Witness ==
    /\ numberOfRelays < MaxNumberOfRelays
    /\ \E d \in PoolDeposits :
          /\ Relay(getDepositHash(d)) # ZeroHash
          /\ \E fee \in RealizedLpFeePcts : relayDepositStatus(d, fee) = "Pending relay exists"
          /\ \E fee \in RealizedLpFeePcts : relayDepositStatus(d, fee) = "reverted"

\* The relay stored for the deposit is one that settleRelay marked Finalized.
IsFinalized(depositData) ==
    \E i \in DOMAIN created :
        /\ created[i].depositData = depositData
        /\ Relay(getDepositHash(depositData))
             = getRelayDataHash([created[i].relayData EXCEPT !.relayState = "Finalized"])

\* C24: Finalized is terminal.  Once settleRelay has succeeded for a deposit, no
\* step of the pool changes or deletes relays[depositHash].
C24_FinalizedIsTerminal ==
    [][\A d \in PoolDeposits :
          IsFinalized(d) => Relay(getDepositHash(d))' = Relay(getDepositHash(d))]_vars

\* The ancillary data and the oracle request of the relay itself.
OwnAncillaryData(depositData, relayData) ==
    getRelayAncillaryData(getRelayHash(depositData, relayData))

OwnRequest(depositData, relayData) ==
    StoredRequest(RequestKey(relayData.priceRequestTime,
                             OwnAncillaryData(depositData, relayData)))

\* The oracle's price for the request is available and is 1e18.
ResolvedTrue(request) ==
    \/ Expired(request) /\ request.proposedPrice = TruePrice
    \/ request.state \in {"Resolved", "Settled"} /\ request.resolvedPrice = TruePrice

\* The i-th relay made is settled by this step.
SettledNow(i) ==
    LET depositHash == getDepositHash(created[i].depositData)
        finalized == getRelayDataHash([created[i].relayData EXCEPT !.relayState = "Finalized"])
    IN Relay(depositHash) # finalized /\ Relay(depositHash)' = finalized

\* C25: settleRelay succeeds only if the relay data hashes to the relay stored
\* for the deposit, the relay is Pending, and the oracle's resolved price for
\* the relay's request is 1e18; nothing else but removeLiquidity pays tokens
\* out of the pool or releases pending reserves.
C25_SettlesOnlyOnTruePrice ==
    [][/\ \A i \in DOMAIN created :
            SettledNow(i)
              => /\ Relay(getDepositHash(created[i].depositData))
                      = getRelayDataHash(created[i].relayData)
                 /\ created[i].relayData.relayState = "Pending"
                 /\ ResolvedTrue(OwnRequest(created[i].depositData, created[i].relayData))
       /\ (pendingReserves' < pendingReserves \/ l1TokenBalance' < l1TokenBalance)
            => \/ \E i \in DOMAIN created : SettledNow(i)
               \/ totalSupply' < totalSupply]_vars

\* The oracle takes a dispute of the request with this key in this step.
DisputedNow(key) ==
    StoredRequest(key).state = "Proposed" /\ requests'[key].state = "Disputed"

\* The i-th relay made is the Pending relay stored for its deposit.
IsPendingRelay(i) ==
    Relay(getDepositHash(created[i].depositData)) = getRelayDataHash(created[i].relayData)

\* C26: a dispute re-opens the deposit.  After the oracle calls priceDisputed
\* with the ancillary data of a Pending relay, relays[depositHash] is empty and
\* relayDeposit for the deposit is not rejected with 'Pending relay exists';
\* a relays entry is deleted in no step but a dispute the oracle takes, so
\* priceDisputed from any other address changes nothing.
C26_DisputeReopensDeposit ==
    [][/\ \A i \in DOMAIN created :
            LET d == created[i].depositData
                key == RequestKey(created[i].relayData.priceRequestTime,
                                  OwnAncillaryData(d, created[i].relayData))
            IN IsPendingRelay(i) /\ DisputedNow(key)
                 => /\ Relay(getDepositHash(d))' = ZeroHash
                    /\ \A fee \in RealizedLpFeePcts :
                          (relayDepositStatus(d, fee))' # "Pending relay exists"
       /\ (\E h \in DOMAIN poolRelays : h \notin DOMAIN poolRelays')
            => \E key \in DOMAIN requests : DisputedNow(key)]_vars

\* A deposit whose Pending relay was disputed: its entry is empty and the
\* deposit can be relayed again.
C26_Witness ==
    \E i \in DOMAIN created :
        /\ StoredRequest(RequestKey(created[i].relayData.priceRequestTime,
               OwnAncillaryData(created[i].depositData, created[i].relayData))).state
             = "Disputed"
        /\ Relay(getDepositHash(created[i].depositData)) = ZeroHash
        /\ relayDepositStatus(created[i].depositData, created[i].relayData.realizedLpFeePct)
             = "ok"
        /\ numberOfRelays < MaxNumberOfRelays

\* The key under which the instant relayer of the i-th relay made is recorded.
InstantRelayHashOf(i) ==
    getInstantRelayHash(getDepositHash(created[i].depositData), created[i].relayData)

\* C27: at most one instant relayer per relay attempt.  An instant relayer is
\* recorded only for the Pending relay stored for a deposit and only under a key
\* with no instant relayer; while one is recorded every speedUpRelay for the key
\* reverts, and the recorded address stays until a settleRelay deletes it.
C27_OneInstantRelayerPerRelay ==
    /\ [](\A i \in DOMAIN created :
            \A r \in KnownRelayData(i) :
               InstantRelayer(InstantRelayHashOf(i)) # ZeroAddress
                 => speedUpRelayStatus(created[i].depositData, r) # "ok")
    /\ [][/\ \A h \in DOMAIN instantRelays' \ DOMAIN instantRelays :
               \E i \in DOMAIN created : InstantRelayHashOf(i) = h /\ IsPendingRelay(i)
          /\ \A h \in DOMAIN instantRelays :
               \/ h \in DOMAIN instantRelays' /\ instantRelays'[h] = instantRelays[h]
               \/ /\ h \notin DOMAIN instantRelays'
                  /\ \E i \in DOMAIN created : InstantRelayHashOf(i) = h /\ SettledNow(i)]_vars

\* An instant relayer is recorded for a relay that is still Pending.
C27_Witness ==
    \E i \in DOMAIN created :
        IsPendingRelay(i) /\ InstantRelayer(InstantRelayHashOf(i)) \in InstantRelayers

RECURSIVE SumOfPendingAmounts(_)
\* The sum of the amounts of the deposits whose stored relay is Pending, over
\* the first n relays made.
SumOfPendingAmounts(n) ==
    IF n = 0 THEN 0
    ELSE SumOfPendingAmounts(n - 1)
           + (IF IsPendingRelay(n) THEN created[n].depositData.amount ELSE 0)

\* C28: pendingReserves equals the sum of the deposit amounts of the relays
\* that are currently Pending.
C28_PendingReservesIsSumOfPending ==
    pendingReserves = SumOfPendingAmounts(Len(created))

\* C29: liquidReserves is at least pendingReserves in every reachable state.
C29_LiquidCoversPending == liquidReserves >= pendingReserves

\* C30: relay ids identify relays.  The k-th relay created has relayId k - 1,
\* the value of numberOfRelays before its relayDeposit, numberOfRelays counts
\* the relays created, and no two of them share a relayId; a step that creates
\* no relay leaves numberOfRelays unchanged and a step that creates one raises
\* it by exactly one.
C30_RelayIdsAreUnique ==
    /\ [](/\ numberOfRelays = Len(created)
          /\ \A i \in DOMAIN created : created[i].relayData.relayId = i - 1
          /\ \A i, j \in DOMAIN created :
                created[i].relayData.relayId = created[j].relayData.relayId => i = j)
    /\ [][/\ numberOfRelays' \in {numberOfRelays, numberOfRelays + 1}
          /\ numberOfRelays' = numberOfRelays + 1
               <=> (Len(created') = Len(created) + 1
                      /\ CreatedNow.relayData.relayId = numberOfRelays)
          /\ numberOfRelays' = numberOfRelays <=> created' = created]_vars

\* Every relay the bound allows was created, the same deposit relayed again after a dispute.
C30_Witness ==
    /\ numberOfRelays = MaxNumberOfRelays
    /\ \E i, j \in DOMAIN created : i # j /\ created[i].depositData = created[j].depositData

\* C31: liquidityUtilizationPostRelay(relayedAmount) and
\* liquidityUtilizationCurrent() return a value in every reachable state and
\* never revert through underflow: 0 when numerator and liquidReserves are 0,
\* 1e18 when the numerator is positive and liquidReserves is 0, the ratio otherwise.
C31_UtilizationNeverReverts ==
    \A relayedAmount \in RelayedAmounts :
        LET result == UtilizationPostRelay(relayedAmount)
            liquid == sync(CurrentCounters, l1TokenBalance).liquidReserves
            numerator == pendingReserves + relayedAmount
                           + sync(CurrentCounters, l1TokenBalance).utilizedReserves
        IN /\ result.ok
           /\ liquid = 0 /\ numerator = 0 => result.value = 0
           /\ liquid = 0 /\ numerator > 0 => result.value = Pct1e18
           /\ liquid > 0 => result.value = (numerator * Pct1e18) \div liquid

(***************************************************************************)
(* OracleChildTunnel: the sidechain adapter that bridges price requests to *)
(* the mainnet DVM and receives the prices it publishes.  The bookkeeping  *)
(* of OracleBaseTunnel and the message tunnel of FxBaseChildTunnel are     *)
(* taken from the documentation of the functions that use them.            *)
(***************************************************************************)
FxRootTunnel == "fxRootTunnel"

\* registry.isContractRegistered(msg.sender)
RegisteredContracts == {"registeredContract"}

\* Who calls the tunnel, and who sends it messages from the root chain.
TunnelCallers == RegisteredContracts \cup {"unregisteredContract"}
RootSenders == {FxRootTunnel, "otherRootSender"}

\* The price requests callers make and the prices the DVM publishes.
Identifiers == {"identifier1", "identifier2"}
RequestTimes == {1}
RequestAncillaryData == {"", "ancillaryData"}
PublishedPrices == {0, 5}

\* OracleBaseTunnel._encodePriceRequest
encodePriceRequest(identifier, time, ancillaryData) ==
    keccak256(<<identifier, time, ancillaryData>>)

\* A prices entry never written: RequestState.NeverRequested and price 0.
NeverRequestedPrice == [state |-> "NeverRequested", price |-> 0]

PriceOf(priceRequestId) == ReadMapping(prices, priceRequestId, NeverRequestedPrice)

\* The modifier onlyRegisteredContract.
onlyRegisteredContract(sender) == sender \in RegisteredContracts

\* The modifier validateSender of FxBaseChildTunnel.
validateSender(sender) == sender = FxRootTunnel

\* A call that reverts changes nothing.
TunnelReverts == UNCHANGED tunnelVars

\* OracleBaseTunnel._requestPrice: a request never made becomes Requested.
RequestedPrices(priceRequestId) ==
    IF PriceOf(priceRequestId).state = "NeverRequested"
    THEN WriteMapping(prices, priceRequestId,
                      [PriceOf(priceRequestId) EXCEPT !.state = "Requested"])
    ELSE prices

requestPrice(sender, identifier, time, ancillaryData) ==
    LET priceRequestId == encodePriceRequest(identifier, time, ancillaryData) IN
    /\ IF ~onlyRegisteredContract(sender) THEN TunnelReverts
       ELSE /\ prices' = RequestedPrices(priceRequestId)
            /\ tunnelMessages' = tunnelMessages \cup {<<identifier, time, ancillaryData>>}
            /\ UNCHANGED tunnelCall
    /\ UNCHANGED <<feedVars, poolVars, messengerVars>>

\* OracleBaseTunnel._publishPrice accepts a price for a request that is
\* Requested, and stores it with the state Resolved.
publishPriceStatus(priceRequestId) ==
    IF PriceOf(priceRequestId).state # "Requested"
    THEN "Price request is not currently pending"
    ELSE "ok"

PublishedPrice(priceRequestId, price) ==
    WriteMapping(prices, priceRequestId, [state |-> "Resolved", price |-> price])

processMessageFromRoot(sender, identifier, time, ancillaryData, price) ==
    LET priceRequestId == encodePriceRequest(identifier, time, ancillaryData) IN
    /\ IF ~validateSender(sender) \/ publishPriceStatus(priceRequestId) # "ok"
       THEN TunnelReverts
       ELSE /\ prices' = PublishedPrice(priceRequestId, price)
            /\ UNCHANGED <<tunnelMessages, tunnelCall>>
    /\ UNCHANGED <<feedVars, poolVars, messengerVars>>

\* hasPrice ignores the state of the request.
hasPrice_AlwaysTrue(sender, identifier, time, ancillaryData) ==
    IF ~onlyRegisteredContract(sender)
    THEN [ok |-> FALSE, reason |-> "Caller must be registered"]
    ELSE [ok |-> TRUE, value |-> TRUE]

\* What hasPrice gives the caller: a value or a revert.
hasPrice(sender, identifier, time, ancillaryData) ==
    IF ~onlyRegisteredContract(sender)
    THEN [ok |-> FALSE, reason |-> "Caller must be registered"]
    ELSE [ok |-> TRUE,
          value |-> PriceOf(encodePriceRequest(identifier, time, ancillaryData)).state
                      = "Resolved"]

\* What getPrice gives the caller.
getPrice(sender, identifier, time, ancillaryData) ==
    IF ~onlyRegisteredContract(sender)
    THEN [ok |-> FALSE, reason |-> "Caller must be registered"]
    ELSE LET lookup == PriceOf(encodePriceRequest(identifier, time, ancillaryData)) IN
         IF lookup.state # "Resolved"
         THEN [ok |-> FALSE, reason |-> "Price has not been resolved"]
         ELSE [ok |-> TRUE, value |-> lookup.price]

\* A caller calls hasPrice or getPrice: views, they leave the storage alone.
CallHasPrice(sender, identifier, time, ancillaryData) ==
    /\ tunnelCall' = [fn |-> "hasPrice", sender |-> sender,
                      priceRequestId |-> encodePriceRequest(identifier, time, ancillaryData),
                      result |-> hasPrice(sender, identifier, time, ancillaryData)]
    /\ UNCHANGED <<prices, tunnelMessages>>
    /\ UNCHANGED <<feedVars, poolVars, messengerVars>>

CallGetPrice(sender, identifier, time, ancillaryData) ==
    /\ tunnelCall' = [fn |-> "getPrice", sender |-> sender,
                      priceRequestId |-> encodePriceRequest(identifier, time, ancillaryData),
                      result |-> getPrice(sender, identifier, time, ancillaryData)]
    /\ UNCHANGED <<prices, tunnelMessages>>
    /\ UNCHANGED <<feedVars, poolVars, messengerVars>>

InitTunnel == Init

NextTunnel ==
    \/ \E sender \in TunnelCallers, identifier \in Identifiers, time \in RequestTimes,
          ancillaryData \in RequestAncillaryData :
          requestPrice(sender, identifier, time, ancillaryData)
    \/ \E sender \in RootSenders, identifier \in Identifiers, time \in RequestTimes,
          ancillaryData \in RequestAncillaryData, price \in PublishedPrices :
          processMessageFromRoot(sender, identifier, time, ancillaryData, price)
    \/ \E sender \in TunnelCallers, identifier \in Identifiers, time \in RequestTimes,
          ancillaryData \in RequestAncillaryData :
          CallHasPrice(sender, identifier, time, ancillaryData)
    \/ \E sender \in TunnelCallers, identifier \in Identifiers, time \in RequestTimes,
          ancillaryData \in RequestAncillaryData :
          CallGetPrice(sender, identifier, time, ancillaryData)

SpecTunnel == InitTunnel /\ [][NextTunnel]_vars

\* What the claim says a registered caller gets from hasPrice and getPrice for
\* a request whose prices entry is lookup.
AnswersAgree(has, get, lookup) ==
    /\ has.ok
    /\ has.value <=> lookup.state = "Resolved"
    /\ has.value => get.ok /\ get.value = lookup.price
    /\ ~has.value => ~get.ok /\ get.reason = "Price has not been resolved"

\* C32: for a registered caller and every (identifier, time, ancillaryData),
\* hasPrice returns true exactly when the request is Resolved; when it returns
\* true getPrice returns the stored price, and when it returns false getPrice
\* reverts with 'Price has not been resolved'.  Every call made gives the
\* answer of the state it is made in and changes no storage.
C32_HasPriceIffGetPriceSucceeds ==
    /\ [](\A sender \in RegisteredContracts, identifier \in Identifiers,
             time \in RequestTimes, ancillaryData \in RequestAncillaryData :
             AnswersAgree(hasPrice(sender, identifier, time, ancillaryData),
                          getPrice(sender, identifier, time, ancillaryData),
                          PriceOf(encodePriceRequest(identifier, time, ancillaryData))))
    /\ [][tunnelCall' # tunnelCall /\ tunnelCall'.sender \in RegisteredContracts
            => LET lookup == PriceOf(tunnelCall'.priceRequestId)
                   result == tunnelCall'.result
               IN /\ prices' = prices
                  /\ tunnelCall'.fn = "hasPrice"
                       => result.ok /\ (result.value <=> lookup.state = "Resolved")
                  /\ tunnelCall'.fn = "getPrice"
                       => IF lookup.state = "Resolved"
                          THEN result.ok /\ result.value = lookup.price
                          ELSE ~result.ok /\ result.reason = "Price has not been resolved"]_vars

\* A registered caller has got a published price from getPrice while another
\* request is not resolved.
C32_Witness ==
    /\ tunnelCall.fn = "getPrice"
    /\ tunnelCall.sender \in RegisteredContracts
    /\ tunnelCall.result.ok
    /\ tunnelCall.result.value # 0
    /\ PriceOf(tunnelCall.priceRequestId).state = "Resolved"
    /\ \E identifier \in Identifiers, time \in RequestTimes,
          ancillaryData \in RequestAncillaryData :
          PriceOf(encodePriceRequest(identifier, time, ancillaryData)).state = "Requested"

(***************************************************************************)
(* Polygon_ChildMessenger: sends the oracle spoke's messages from Polygon  *)
(* to the parent messenger on Ethereum and hands the parent's messages to  *)
(* their targets.                                                          *)
(***************************************************************************)
\* Most messages the messenger sends in one run.
MaxMessengerMessages == 2

\* The addresses the setters are called with, and who calls sendMessageToParent.
SpokeAddresses == {ZeroAddress, "oracleSpokeA", "oracleSpokeB"}
HubAddresses == {ZeroAddress, "oracleHubA", "oracleHubB"}
MessengerCallers == {"oracleSpokeA", "oracleSpokeB", "stranger"}
MessengerData == {"data1", "data2"}
MessengerTargets == {"oracleSpokeA", "governorSpoke"}

\* require(oracleSpoke == address(0x0), "OracleSpoke already set") left out.
setOracleSpokeStatus_Overwrites == "ok"

setOracleSpokeStatus ==
    IF oracleSpoke # ZeroAddress THEN "OracleSpoke already set" ELSE "ok"

setOracleSpoke(newOracleSpoke) ==
    /\ oracleSpoke' = IF setOracleSpokeStatus # "ok" THEN oracleSpoke ELSE newOracleSpoke
    /\ UNCHANGED <<oracleHub, messengerMessages, messengerDelivered>>
    /\ UNCHANGED <<feedVars, poolVars, tunnelVars>>

setOracleHubStatus ==
    IF oracleHub # ZeroAddress THEN "OracleHub already set" ELSE "ok"

setOracleHub(newOracleHub) ==
    /\ oracleHub' = IF setOracleHubStatus # "ok" THEN oracleHub ELSE newOracleHub
    /\ UNCHANGED <<oracleSpoke, messengerMessages, messengerDelivered>>
    /\ UNCHANGED <<feedVars, poolVars, tunnelVars>>

sendMessageToParentStatus(sender) ==
    IF sender # oracleSpoke THEN "Only callable by oracleSpoke" ELSE "ok"

\* _sendMessageToRoot(abi.encode(data, oracleHub)); sender is kept with the
\* message for stating who had it sent.
sendMessageToParent(sender, data) ==
    /\ Len(messengerMessages) < MaxMessengerMessages
    /\ messengerMessages' =
          IF sendMessageToParentStatus(sender) # "ok" THEN messengerMessages
          ELSE Append(messengerMessages,
                      [data |-> data, oracleHub |-> oracleHub, sender |-> sender])
    /\ UNCHANGED <<oracleSpoke, oracleHub, messengerDelivered>>
    /\ UNCHANGED <<feedVars, poolVars, tunnelVars>>

\* The interface function: a no-op.
processMessageFromCrossChainParent(data, target) ==
    /\ UNCHANGED messengerVars
    /\ UNCHANGED <<feedVars, poolVars, tunnelVars>>

\* _processMessageFromRoot: the target's processMessageFromParent is called
\* with the data when the root sender is the fxRootTunnel.
messengerProcessMessageFromRoot(sender, data, target) ==
    /\ messengerDelivered' = IF ~validateSender(sender) THEN messengerDelivered
                             ELSE messengerDelivered \cup {<<data, target>>}
    /\ UNCHANGED <<oracleSpoke, oracleHub, messengerMessages>>
    /\ UNCHANGED <<feedVars, poolVars, tunnelVars>>

InitMessenger == Init

NextMessenger ==
    \/ \E newOracleSpoke \in SpokeAddresses : setOracleSpoke(newOracleSpoke)
    \/ \E newOracleHub \in HubAddresses : setOracleHub(newOracleHub)
    \/ \E sender \in MessengerCallers, data \in MessengerData : sendMessageToParent(sender, data)
    \/ \E data \in MessengerData, target \in MessengerTargets :
          processMessageFromCrossChainParent(data, target)
    \/ \E sender \in RootSenders, data \in MessengerData, target \in MessengerTargets :
          messengerProcessMessageFromRoot(sender, data, target)

SpecMessenger == InitMessenger /\ [][NextMessenger]_vars

\* C33: oracleSpoke and oracleHub are write-once: once a non-zero address is
\* stored the setter reverts and the address never changes; sendMessageToParent
\* succeeds only for the stored oracleSpoke, and no message is sent in a step
\* unless the stored oracleSpoke has it sent.
C33_WriteOnceAndSpokeOnly ==
    /\ [](/\ oracleSpoke # ZeroAddress => setOracleSpokeStatus = "OracleSpoke already set"
          /\ oracleHub # ZeroAddress => setOracleHubStatus = "OracleHub already set"
          /\ \A sender \in MessengerCallers :
                sendMessageToParentStatus(sender) = "ok" <=> sender = oracleSpoke)
    /\ [][/\ oracleSpoke # ZeroAddress => oracleSpoke' = oracleSpoke
          /\ oracleHub # ZeroAddress => oracleHub' = oracleHub
          /\ messengerMessages' # messengerMessages
               => /\ Len(messengerMessages') = Len(messengerMessages) + 1
                  /\ SubSeq(messengerMessages', 1, Len(messengerMessages)) = messengerMessages
                  /\ messengerMessages'[Len(messengerMessages')].sender = oracleSpoke
                  /\ messengerMessages'[Len(messengerMessages')].oracleHub = oracleHub]_vars

\* Both addresses are set and the oracle spoke has sent a message, while
\* setters and other callers can still call.
C33_Witness ==
    /\ oracleSpoke # ZeroAddress
    /\ oracleHub # ZeroAddress
    /\ Len(messengerMessages) = 1
    /\ messengerMessages[1].sender = oracleSpoke
    /\ messengerMessages[1].oracleHub = oracleHub

====
